---- MODULE Spec2Model ----
(***************************************************************************)
(* Model of MessageProcessor (src/api/services/message_processor.py): the  *)
(* real-time dwell tracking of (user, zone) keys in Redis, the zone        *)
(* threshold cache and the background violation-log writes.                *)
(*                                                                         *)
(* Time is counted in milliseconds.  Thresholds and the tracking TTL are   *)
(* whole seconds, as in the configuration, and are scaled where the code   *)
(* compares them with a difference of timestamps.                          *)
(*                                                                         *)
(* Every coroutine of process() is cut at the awaits that suspend it: the  *)
(* connection test, the configuration query, the MULTI/EXEC read and each  *)
(* of the later single commands (HSET, EXPIRE).  The statements between    *)
(* two such awaits run without interruption on the event loop and form one *)
(* action.                                                                 *)
(***************************************************************************)
EXTENDS Integers, Sequences, FiniteSets, TLC

\* ------------------------------------------------------------------ bounds
NumProcs == 2            \* process() coroutines that may be in flight together
MaxCalls == 3            \* process() calls started in one behaviour of Spec
SeqMaxCalls == 3         \* process() calls started in one behaviour of SeqSpec
DwellMaxCalls == 4       \* process() calls started in one behaviour of DwellSpec
CacheMaxCalls == 4       \* process() calls started in one behaviour of CacheSpec
LifeMaxCalls == 3        \* process() calls started in one behaviour of LifeSpec
StatsMaxCalls == 3       \* process() calls in the statistics specification
ConsMaxMessages == 2     \* messages handed to the consumer services in one behaviour
StreamMaxAppends == 102  \* messages appended to the buffer in the streaming specification
SseMaxAttempts == 8      \* connection attempts of the SSE consumer in one behaviour
RaceMaxCalls == 2        \* process() calls started in one behaviour of RaceSpec
MaxTicks == 3            \* clock observations after the initial one
MaxOutages == 1          \* times a server goes down in one behaviour
TickMs == 5000           \* the clock is observed every 5 s

Procs == 1..NumProcs
MaxTime == MaxTicks * TickMs

\* ------------------------------------------------------- inputs and values
Users == {"U1"}
Zones == {"Z1", "Z2"}
Keys == Users \X Zones

NoTs == -1               \* the message carries no 'timestamp'
BadTs == -2              \* the message carries a 'timestamp' fromisoformat rejects
MsgTimes == {7004, 11000}   \* parsable message timestamps (ms); none ends in 5,
                            \* so round(x, 2) never meets a tie
MsgTs == {NoTs, BadTs} \cup MsgTimes
\* one subject dwelling in one zone
DwellMessages == [user_id : {"U1"}, zone_id : {"Z1"}, timestamp : MsgTs]
\* messages without one of the two ids
InvalidMessages == {[user_id |-> "", zone_id |-> "Z1", timestamp |-> NoTs],
                    [user_id |-> "U1", zone_id |-> "", timestamp |-> NoTs]}
Messages == DwellMessages \cup InvalidMessages
\* calls that meet on one key
SameKeyMessages == [user_id : {"U1"}, zone_id : {"Z1"}, timestamp : {NoTs, 11000}]
\* lookups of either zone, at the clock or at a later event time
LookupMessages == [user_id : {"U1"}, zone_id : Zones, timestamp : {NoTs, 11000}]

\* the consumer services (api/services/consumer_factory.py)
Kinds == {"kafka", "sse", "websocket"}
result_timeout == 5000   \* future.result(timeout=5.0), in ms
maxlen == 100            \* deque(maxlen=100)

\* users of the users dictionary: global ids and names
UserIds == {7, 12}
Names == {"A", "B"}
Dicts == UNION {[S -> Names] : S \in SUBSET UserIds}
EmptyDict == [k \in {} |-> "A"]

ThresholdChoices == {5, 10}   \* thresholds an administrator sets (seconds)

\* settings.business.* is read by the processor but not defined by
\* src/config/settings.py; the values follow the description of the system.
tracking_ttl == 10       \* idle window of a tracking record (seconds)
default_threshold == 5   \* global default dwell threshold (seconds)

violation_threshold == 10   \* default of working_zones.violation_threshold (seconds)

NotCached == -1          \* zone_id not in _zone_config_cache
NoRow == -1              \* working_zones has no row for the zone
Absent == -1             \* a hash field that is not set
NoTTL == -1              \* Redis TTL of a key without expiry

\* A Redis hash track:{user}:{zone}.  A hash without fields does not exist.
NoRec == [start_ts |-> Absent, threshold |-> Absent, alerted |-> Absent, exp |-> NoTTL]

Statuses == {"ENTERED", "WARNING", "VIOLATION", "VIOLATION_ONGOING", "ERROR", "INVALID"}

VARIABLES
    redis,          \* cls._redis: "none" or "set"
    zone_cache,     \* cls._zone_config_cache, NotCached where the zone is not a key
    stats,          \* cls._stats
    track,          \* the Redis hashes, per key
    now,            \* the wall clock (time.time() and the store's clock), ms
    storeUp,        \* the Redis server answers commands
    dbUp,           \* the PostgreSQL server answers queries
    zoneDb,         \* working_zones.violation_threshold per zone, or NoRow
    proc,           \* the process() coroutines: position and local variables
    tasks,          \* _save_violation_log tasks created and not yet run
    violation_logs, \* rows of violation_logs
    outages,        \* how many times a server has gone down
    invalidated,    \* per zone: invalidated, and no call has looked the zone up since
    ep,             \* per key, since its hash was last created or removed: the calls that
                    \* returned VIOLATION, the writes scheduled, whether a call returned ERROR
    last_touch,     \* per key: the clock at the last store command of a process() call on it
    written,        \* per zone: the threshold update_zone_cache wrote last, NotCached once
                    \* the zone has been invalidated since (or was never updated)
    cleared,        \* per key: clear_user_tracking has returned, and no call on the key since
    snapshot,       \* what get_statistics() returned last
    stopped,        \* shutdown_event has run: the event loop is gone
    \* RedisCache (src/utils/redis_cache.py)
    rc_enabled,     \* self.enabled
    rc_redis,       \* self.redis: "none" or "set"
    users_hash,     \* the hash users:dict in the store: field (a string) -> name
    rc_last,        \* the last call that writes the hash: what it was given and returned
    got,            \* what get_users_dict() returned last, and after which call
    \* the consumer services (src/api/services/*_consumer_service.py)
    consumer,       \* per kind: _running, _event_loop set, _task, _message_count, and
                    \* whether stop() has returned since the last start
    poll,           \* the executor thread in KafkaAlertConsumer.consume: "none" / "polling"
    future,         \* the future _process_business_logic waits on
    handed,         \* per kind: messages handed to _handle_message
    message_buffer, \* the shared deque
    \* the WebSocket endpoint /kafka/ws/alerts (src/api/routers/kafka.py)
    client,         \* one client: connected, last_sent, and what it has been sent
                    \* since it connected
    \* SSEConsumerService (src/api/services/sse_consumer_service.py)
    sse             \* config, _running, _retry_count, where _consume_loop is, and the
                    \* failed attempts since the last successful connection

\* the state of MessageProcessor and of what it talks to
mp == <<redis, zone_cache, stats, track, now, storeUp, dbUp, zoneDb, proc,
        tasks, violation_logs, outages, invalidated, ep, last_touch,
        written, cleared, snapshot, stopped>>

\* the state of the services around it
rcache == <<rc_enabled, rc_redis, users_hash, rc_last, got>>
cons == <<consumer, poll, future, handed, message_buffer>>
stream == <<client>>
recon == <<sse>>
svc == <<rcache, cons, stream, recon, recon>>

vars == <<mp, svc>>

\* --------------------------------------------------------- pure functions

\* round(x, 2) on a number of seconds, here on milliseconds: the nearest
\* multiple of 10 ms, a tie going to the even hundredth.
Round2(x) ==
    LET q == x \div 10
        r == x % 10
    IN  IF r < 5 THEN 10 * q
        ELSE IF r > 5 THEN 10 * (q + 1)
        ELSE IF q % 2 = 0 THEN 10 * q ELSE 10 * (q + 1)

\* current_ts: the message's timestamp when it parses, else time.time()
CurrentTs(m_ts, clock) == IF m_ts \in {NoTs, BadTs} THEN clock ELSE m_ts

\* a new entry written without its alerted field
NewEntryNoAlerted(old, current_ts, threshold) ==
    [old EXCEPT !.start_ts = current_ts, !.threshold = threshold]

\* the hash written for a new entry
NewEntry(old, current_ts, threshold) ==
    [old EXCEPT !.start_ts = current_ts, !.threshold = threshold, !.alerted = 0]

\* int(state_data.get('alerted', 0))
AlertedOf(state_data) == IF state_data.alerted = Absent THEN 0 ELSE state_data.alerted

\* the branch taken were the alerted flag not consulted
ClassifyNoDebounce(state_data, current_ts, threshold) ==
    LET duration == current_ts - state_data.start_ts
    IN  IF duration > threshold * 1000 THEN "VIOLATION" ELSE "WARNING"

\* the branch taken were the threshold itself already a violation
ClassifyAtThreshold(state_data, current_ts, threshold) ==
    LET duration == current_ts - state_data.start_ts
    IN  IF duration >= threshold * 1000
        THEN IF AlertedOf(state_data) = 0 THEN "VIOLATION" ELSE "VIOLATION_ONGOING"
        ELSE "WARNING"

\* the branch taken for an existing hash
Classify(state_data, current_ts, threshold) ==
    LET duration == current_ts - state_data.start_ts
    IN  IF duration > threshold * 1000
        THEN IF AlertedOf(state_data) = 0 THEN "VIOLATION" ELSE "VIOLATION_ONGOING"
        ELSE "WARNING"

\* EXPIRE key tracking_ttl: no effect on a key that does not exist
Expire(rec, clock) == IF rec = NoRec THEN rec ELSE [rec EXCEPT !.exp = clock + tracking_ttl * 1000]

\* the store drops a key once its expiry time is reached
Evicted(rec, clock) == rec # NoRec /\ rec.exp # NoTTL /\ rec.exp <= clock

\* an invalidation that clears the whole cache whatever the zone
InvalidateAll(cache, zone_id) == [z \in Zones |-> NotCached]

\* cls._zone_config_cache.pop(zone_id, None) / .clear()
Invalidate(cache, zone_id) ==
    IF zone_id # "" THEN [cache EXCEPT ![zone_id] = NotCached]
    ELSE [z \in Zones |-> NotCached]

\* the threshold the configuration lookup yields
DbThreshold(row, up) == IF up /\ row # NoRow THEN row ELSE default_threshold

\* ------------------------------------------------------------ coroutines

IdleProc ==
    [pc |-> "idle", user_id |-> "", zone_id |-> "", timestamp |-> NoTs,
     current_ts |-> 0, threshold |-> 0, db_threshold |-> 0,
     state_data |-> NoRec, duration |-> 0,
     be_status |-> "", tracking_duration |-> 0, violation_duration |-> 0,
     out_threshold |-> 0, time_remaining |-> 0,
     \* what the call did, kept for the properties
     has_read |-> FALSE, broken |-> FALSE, past |-> FALSE, failed |-> FALSE,
     err_inc |-> 0, ncmd |-> 0, cmd_at_fail |-> 0, queried |-> FALSE,
     cache_at_start |-> NotCached, after_inval |-> FALSE, scheduled |-> FALSE,
     after_clear |-> FALSE, stale |-> FALSE]

KeyOf(w) == <<w.user_id, w.zone_id>>

\* a handler that counts the error and leaves the status the branch had set
ExceptHandlerKeepStatus(w) ==
    [w EXCEPT !.pc = "done", !.err_inc = @ + 1]

\* a handler that counts the error and raises it again to the caller
ExceptHandlerReraise(w) ==
    [w EXCEPT !.be_status = "ERROR", !.pc = "raised", !.err_inc = @ + 1]

\* except Exception (lines 206-209 and 211-214): the call ends with ERROR
ExceptHandler(w) ==
    [w EXCEPT !.be_status = "ERROR", !.pc = "done", !.err_inc = @ + 1]

\* a command raised: what the handler leaves, with the fact recorded
Raised(w) == [ExceptHandler(w) EXCEPT !.failed = TRUE, !.cmd_at_fail = w.ncmd]

\* the record of the episode after the call of w has returned
EpAfter(w) ==
    IF KeyOf(w) \in Keys /\ ~w.broken
    THEN [ep EXCEPT ![KeyOf(w)] =
             [@ EXCEPT !.viol = IF w.be_status = "VIOLATION" THEN @ + 1 ELSE @,
                       !.err = @ \/ w.be_status = "ERROR"]]
    ELSE ep

NewEpisode == [viol |-> 0, sched |-> 0, err |-> FALSE]

\* the coroutines that have read the hash of key k and not yet returned
\* lose their episode when the hash is removed
BreakReaders(k_removed) ==
    [p \in Procs |->
        IF /\ proc[p].pc \notin {"idle", "done"}
           /\ proc[p].has_read
           /\ KeyOf(proc[p]) \in k_removed
        THEN [proc[p] EXCEPT !.broken = TRUE]
        ELSE proc[p]]

\* the lookups of these zones that hold what the configuration store gave
\* them and have not cached it yet: an administrative call on the zone has
\* completed since they read
StaleLookups(zones) ==
    [p \in Procs |->
        IF proc[p].pc = "db_ret" /\ proc[p].zone_id \in zones
        THEN [proc[p] EXCEPT !.stale = TRUE]
        ELSE proc[p]]

\* a validation that takes back the count of a message it rejects
AfterInitCountsValid(p, w, st) ==
    IF w.user_id = "" \/ w.zone_id = ""
    THEN /\ proc' = [proc EXCEPT ![p] = [w EXCEPT !.be_status = "INVALID", !.pc = "done",
                                                   !.err_inc = @ + 1]]
         /\ stats' = [st EXCEPT !.errors = @ + 1, !.messages_processed = @ - 1]
         /\ invalidated' = invalidated
    ELSE LET w1 == [w EXCEPT !.current_ts = CurrentTs(w.timestamp, now),
                             !.timestamp = NoTs,
                             !.cache_at_start = zone_cache[w.zone_id],
                             !.after_inval = invalidated[w.zone_id]]
         IN  /\ stats' = st
             /\ invalidated' = [invalidated EXCEPT ![w.zone_id] = FALSE]
             /\ IF zone_cache[w.zone_id] # NotCached
                THEN proc' = [proc EXCEPT ![p] = [w1 EXCEPT !.threshold = zone_cache[w.zone_id],
                                                            !.pc = "exec"]]
                ELSE proc' = [proc EXCEPT ![p] = [w1 EXCEPT !.pc = "db"]]

\* lines 99-126: validation, timestamp and the cached threshold
AfterInit(p, w, st) ==
    IF w.user_id = "" \/ w.zone_id = ""
    THEN /\ proc' = [proc EXCEPT ![p] = [w EXCEPT !.be_status = "INVALID", !.pc = "done",
                                                   !.err_inc = @ + 1]]
         /\ stats' = [st EXCEPT !.errors = @ + 1]
         /\ invalidated' = invalidated
    ELSE LET w1 == [w EXCEPT !.current_ts = CurrentTs(w.timestamp, now),
                             !.timestamp = NoTs,
                             !.cache_at_start = zone_cache[w.zone_id],
                             !.after_inval = invalidated[w.zone_id]]
         IN  /\ stats' = st
             /\ invalidated' = [invalidated EXCEPT ![w.zone_id] = FALSE]
             /\ IF zone_cache[w.zone_id] # NotCached
                THEN proc' = [proc EXCEPT ![p] = [w1 EXCEPT !.threshold = zone_cache[w.zone_id],
                                                            !.pc = "exec"]]
                ELSE proc' = [proc EXCEPT ![p] = [w1 EXCEPT !.pc = "db"]]

\* lines 92-97: the call starts; the connection is created when there is none.
\* The coroutines are interchangeable: a call takes the lowest free one.
BeginCall(p, m) ==
    /\ proc[p].pc = "idle"
    /\ \A q \in Procs : q < p => proc[q].pc # "idle"
    /\ LET k == <<m.user_id, m.zone_id>>
           w == [IdleProc EXCEPT !.user_id = m.user_id, !.zone_id = m.zone_id,
                                 !.timestamp = m.timestamp,
                                 !.after_clear = k \in Keys /\ cleared[k]]
           st == [stats EXCEPT !.messages_processed = @ + 1]
       IN  IF redis = "none"
           THEN /\ redis' = "set"
                /\ proc' = [proc EXCEPT ![p] = [w EXCEPT !.pc = "ping", !.ncmd = 1]]
                /\ stats' = st
                /\ invalidated' = invalidated
           ELSE /\ redis' = redis
                /\ AfterInit(p, w, st)
    /\ cleared' = [k \in Keys |-> cleared[k] /\ k # <<m.user_id, m.zone_id>>]
    /\ UNCHANGED <<written, snapshot, stopped>>
    /\ UNCHANGED <<zone_cache, track, now, storeUp, dbUp, zoneDb, tasks, violation_logs,
                   outages, ep, last_touch>>

\* a call of process() made by a caller that keeps no state of its own
BeginBody(p, m) == BeginCall(p, m) /\ UNCHANGED svc

Begin(p, m) == stats.messages_processed < MaxCalls /\ BeginBody(p, m)

\* lines 66-71: PING answers, or init_redis raises into the outer handler
Ping(p) ==
    /\ proc[p].pc = "ping"
    /\ IF storeUp
       THEN AfterInit(p, proc[p], stats) /\ ep' = ep
       ELSE LET w == Raised(proc[p])
            IN  /\ proc' = [proc EXCEPT ![p] = w]
                /\ stats' = [stats EXCEPT !.errors = @ + 1]
                /\ ep' = EpAfter(w)
                /\ invalidated' = invalidated
    /\ UNCHANGED <<written, cleared, snapshot, stopped, svc>>
    /\ UNCHANGED <<redis, zone_cache, track, now, storeUp, dbUp, zoneDb, tasks,
                   violation_logs, outages, last_touch>>

\* lines 238-261: the configuration query is answered (or fails)
DbQuery(p) ==
    /\ proc[p].pc = "db"
    /\ proc' = [proc EXCEPT ![p] = [@ EXCEPT !.db_threshold = DbThreshold(zoneDb[proc[p].zone_id], dbUp),
                                             !.queried = TRUE, !.pc = "db_ret"]]
    /\ UNCHANGED <<written, cleared, snapshot, stopped, svc>>
    /\ UNCHANGED <<redis, zone_cache, stats, track, now, storeUp, dbUp, zoneDb, tasks,
                   violation_logs, outages, ep, last_touch, invalidated>>

\* a lookup that caches what the store gave but not the default it fell back to
DbReturnSkipsDefault(p) ==
    /\ proc[p].pc = "db_ret"
    /\ zone_cache' = IF proc[p].db_threshold = default_threshold THEN zone_cache
                     ELSE [zone_cache EXCEPT ![proc[p].zone_id] = proc[p].db_threshold]
    /\ proc' = [proc EXCEPT ![p] = [@ EXCEPT !.threshold = proc[p].db_threshold, !.pc = "exec"]]
    /\ UNCHANGED <<redis, stats, track, now, storeUp, dbUp, zoneDb, tasks,
                   violation_logs, outages, ep, last_touch, invalidated,
                   written, cleared, snapshot, stopped, svc>>

\* lines 263-266: the coroutine resumes and caches what the query gave
DbReturn(p) ==
    /\ proc[p].pc = "db_ret"
    /\ zone_cache' = [zone_cache EXCEPT ![proc[p].zone_id] = proc[p].db_threshold]
    /\ proc' = [proc EXCEPT ![p] = [@ EXCEPT !.threshold = proc[p].db_threshold, !.pc = "exec"]]
    /\ UNCHANGED <<written, cleared, snapshot, stopped, svc>>
    /\ UNCHANGED <<redis, stats, track, now, storeUp, dbUp, zoneDb, tasks,
                   violation_logs, outages, ep, last_touch, invalidated>>

\* the clock at which a call sent its last command on key k
Touched(k) == [last_touch EXCEPT ![k] = now]

\* a store command of the touch failed: the inner handler
Fail(p) ==
    LET w == Raised([proc[p] EXCEPT !.ncmd = @ + 1])
    IN  /\ proc' = [proc EXCEPT ![p] = w]
        /\ stats' = [stats EXCEPT !.errors = @ + 1]
        /\ ep' = EpAfter(w)
        /\ last_touch' = Touched(KeyOf(w))
        /\ UNCHANGED <<track, tasks>>

\* lines 132-201: MULTI / HGETALL / TTL / EXEC and the branch on its result
Exec(p) ==
    /\ proc[p].pc = "exec"
    /\ IF ~storeUp THEN Fail(p)
       ELSE LET w == proc[p]
                sd == track[KeyOf(w)]
                w1 == [w EXCEPT !.state_data = sd, !.has_read = TRUE, !.ncmd = @ + 1]
            IN  /\ UNCHANGED <<track, tasks>>
                /\ last_touch' = Touched(KeyOf(w))
                /\ IF sd = NoRec
                   THEN /\ proc' = [proc EXCEPT ![p] = [w1 EXCEPT !.pc = "hset_new"]]
                        /\ UNCHANGED <<stats, ep>>
                   ELSE IF sd.start_ts = Absent
                   THEN \* state_data['start_ts'] raises KeyError
                        LET w2 == ExceptHandler(w1)
                        IN  /\ proc' = [proc EXCEPT ![p] = w2]
                            /\ stats' = [stats EXCEPT !.errors = @ + 1]
                            /\ ep' = EpAfter(w2)
                   ELSE LET duration == w.current_ts - sd.start_ts
                            branch == Classify(sd, w.current_ts, w.threshold)
                            w2 == [w1 EXCEPT !.duration = duration,
                                             !.past = duration > w.threshold * 1000,
                                             !.tracking_duration = Round2(duration),
                                             !.be_status = branch]
                        IN  /\ ep' = ep
                            /\ IF branch = "WARNING"
                               THEN /\ proc' = [proc EXCEPT ![p] =
                                          [w2 EXCEPT !.time_remaining = Round2(w.threshold * 1000 - duration),
                                                     !.pc = "expire"]]
                                    /\ stats' = [stats EXCEPT !.warnings_issued = @ + 1]
                               ELSE /\ proc' = [proc EXCEPT ![p] =
                                          [w2 EXCEPT !.violation_duration = Round2(duration),
                                                     !.out_threshold = w.threshold,
                                                     !.pc = IF branch = "VIOLATION" THEN "hset_alert"
                                                                                    ELSE "expire"]]
                                    /\ stats' = stats
    /\ UNCHANGED <<written, cleared, snapshot, stopped, svc>>
    /\ UNCHANGED <<redis, zone_cache, now, storeUp, dbUp, zoneDb, violation_logs, outages, invalidated>>

\* lines 141-147: HSET of the new entry
HsetNew(p) ==
    /\ proc[p].pc = "hset_new"
    /\ IF ~storeUp THEN Fail(p)
       ELSE LET w == proc[p]
                k == KeyOf(w)
            IN  /\ track' = [track EXCEPT ![k] = NewEntry(@, w.current_ts, w.threshold)]
                /\ proc' = [proc EXCEPT ![p] = [w EXCEPT !.ncmd = @ + 1, !.pc = "expire_new"]]
                /\ ep' = IF track[k] = NoRec THEN [ep EXCEPT ![k] = NewEpisode] ELSE ep
                /\ last_touch' = Touched(k)
                /\ UNCHANGED <<stats, tasks>>
    /\ UNCHANGED <<written, cleared, snapshot, stopped, svc>>
    /\ UNCHANGED <<redis, zone_cache, now, storeUp, dbUp, zoneDb, violation_logs, outages, invalidated>>

\* lines 148-152: EXPIRE of the new entry, then ENTERED
ExpireNew(p) ==
    /\ proc[p].pc = "expire_new"
    /\ IF ~storeUp THEN Fail(p)
       ELSE LET w == [proc[p] EXCEPT !.ncmd = @ + 1, !.be_status = "ENTERED",
                                     !.tracking_duration = 0, !.pc = "done"]
                k == KeyOf(w)
            IN  /\ track' = [track EXCEPT ![k] = Expire(@, now)]
                /\ proc' = [proc EXCEPT ![p] = w]
                /\ ep' = EpAfter(w)
                /\ last_touch' = Touched(k)
                /\ UNCHANGED <<stats, tasks>>
    /\ UNCHANGED <<written, cleared, snapshot, stopped, svc>>
    /\ UNCHANGED <<redis, zone_cache, now, storeUp, dbUp, zoneDb, violation_logs, outages, invalidated>>

\* lines 170-189: HSET alerted 1, then the task and the counter
HsetAlert(p) ==
    /\ proc[p].pc = "hset_alert"
    /\ IF ~storeUp THEN Fail(p)
       ELSE LET w == proc[p]
                k == KeyOf(w)
                e == IF track[k] = NoRec THEN [ep EXCEPT ![k] = NewEpisode] ELSE ep
            IN  /\ track' = [track EXCEPT ![k] = [@ EXCEPT !.alerted = 1]]
                /\ tasks' = Append(tasks, [user_id |-> w.user_id, zone_id |-> w.zone_id,
                                           start_ts |-> w.state_data.start_ts,
                                           duration |-> w.duration,
                                           threshold |-> w.threshold])
                /\ stats' = [stats EXCEPT !.violations_detected = @ + 1]
                /\ proc' = [proc EXCEPT ![p] = [w EXCEPT !.ncmd = @ + 1, !.scheduled = TRUE,
                                                         !.pc = "expire"]]
                /\ ep' = IF w.broken THEN e ELSE [e EXCEPT ![k].sched = @ + 1]
                /\ last_touch' = Touched(k)
    /\ UNCHANGED <<written, cleared, snapshot, stopped, svc>>
    /\ UNCHANGED <<redis, zone_cache, now, storeUp, dbUp, zoneDb, violation_logs, outages, invalidated>>

\* a touch that goes on only when no violation-log write is outstanding
ExpireTouchAwaitsSave(p) ==
    /\ proc[p].pc = "expire"
    /\ Len(tasks) = 0
    /\ IF ~storeUp THEN Fail(p)
       ELSE LET w == [proc[p] EXCEPT !.ncmd = @ + 1, !.pc = "done"]
                k == KeyOf(w)
            IN  /\ track' = [track EXCEPT ![k] = Expire(@, now)]
                /\ proc' = [proc EXCEPT ![p] = w]
                /\ ep' = EpAfter(w)
                /\ last_touch' = Touched(k)
                /\ UNCHANGED <<stats, tasks>>
    /\ UNCHANGED <<redis, zone_cache, now, storeUp, dbUp, zoneDb, violation_logs, outages,
                   invalidated, written, cleared, snapshot, stopped, svc>>

\* lines 203-204: EXPIRE on every message for an existing entry
ExpireTouch(p) ==
    /\ proc[p].pc = "expire"
    /\ IF ~storeUp THEN Fail(p)
       ELSE LET w == [proc[p] EXCEPT !.ncmd = @ + 1, !.pc = "done"]
                k == KeyOf(w)
            IN  /\ track' = [track EXCEPT ![k] = Expire(@, now)]
                /\ proc' = [proc EXCEPT ![p] = w]
                /\ ep' = EpAfter(w)
                /\ last_touch' = Touched(k)
                /\ UNCHANGED <<stats, tasks>>
    /\ UNCHANGED <<written, cleared, snapshot, stopped, svc>>
    /\ UNCHANGED <<redis, zone_cache, now, storeUp, dbUp, zoneDb, violation_logs, outages, invalidated>>

\* line 216: the caller takes the message; the coroutine is gone
Return(p) ==
    /\ proc[p].pc = "done"
    /\ proc' = [proc EXCEPT ![p] = IdleProc]
    /\ UNCHANGED <<written, cleared, snapshot, stopped, svc>>
    /\ UNCHANGED <<redis, zone_cache, stats, track, now, storeUp, dbUp, zoneDb, tasks,
                   violation_logs, outages, ep, last_touch, invalidated>>

\* ------------------------------------------------------ background task

\* a write whose failure is counted as an error of the processor
SaveViolationLogCountsError(i) ==
    /\ i \in 1..Len(tasks)
    /\ tasks' = [j \in 1..(Len(tasks) - 1) |-> IF j < i THEN tasks[j] ELSE tasks[j + 1]]
    /\ violation_logs' = IF dbUp THEN Append(violation_logs, tasks[i]) ELSE violation_logs
    /\ stats' = IF dbUp THEN stats ELSE [stats EXCEPT !.errors = @ + 1]
    /\ UNCHANGED <<redis, zone_cache, track, now, storeUp, dbUp, zoneDb, proc,
                   outages, ep, last_touch, invalidated, written, cleared, snapshot, stopped, svc>>

\* lines 311-337: one pending _save_violation_log runs; a failure is logged and dropped
SaveViolationLog(i) ==
    /\ i \in 1..Len(tasks)
    /\ tasks' = [j \in 1..(Len(tasks) - 1) |-> IF j < i THEN tasks[j] ELSE tasks[j + 1]]
    /\ violation_logs' = IF dbUp THEN Append(violation_logs, tasks[i]) ELSE violation_logs
    /\ UNCHANGED <<written, cleared, snapshot, stopped, svc>>
    /\ UNCHANGED <<redis, zone_cache, stats, track, now, storeUp, dbUp, zoneDb, proc,
                   outages, ep, last_touch, invalidated>>

\* ------------------------------------------------------- administration

\* an update that replaces the whole cache by the one entry
update_zone_cache_replace(zone_id, threshold) ==
    /\ zone_cache' = [z \in Zones |-> IF z = zone_id THEN threshold ELSE NotCached]
    /\ invalidated' = [invalidated EXCEPT ![zone_id] = FALSE]
    /\ written' = [written EXCEPT ![zone_id] = threshold]
    /\ proc' = StaleLookups({zone_id})
    /\ UNCHANGED <<redis, stats, track, now, storeUp, dbUp, zoneDb, tasks,
                   violation_logs, outages, ep, last_touch, cleared, snapshot, stopped, svc>>

\* lines 268-278
update_zone_cache(zone_id, threshold) ==
    /\ zone_cache' = [zone_cache EXCEPT ![zone_id] = threshold]
    /\ invalidated' = [invalidated EXCEPT ![zone_id] = FALSE]
    /\ written' = [written EXCEPT ![zone_id] = threshold]
    /\ proc' = StaleLookups({zone_id})
    /\ UNCHANGED <<cleared, snapshot, stopped, svc>>
    /\ UNCHANGED <<redis, stats, track, now, storeUp, dbUp, zoneDb, tasks,
                   violation_logs, outages, ep, last_touch>>

\* zone_id = "" stands for None (and for the empty string, which the code treats alike)
invalidate_zone_cache(zone_id) ==
    /\ zone_cache' = Invalidate(zone_cache, zone_id)
    /\ invalidated' = [z \in Zones |-> invalidated[z] \/ zone_id \in {z, ""}]
    /\ written' = [z \in Zones |-> IF zone_id \in {z, ""} THEN NotCached ELSE written[z]]
    /\ proc' = StaleLookups(IF zone_id = "" THEN Zones ELSE {zone_id})
    /\ UNCHANGED <<cleared, snapshot, stopped, svc>>
    /\ UNCHANGED <<redis, stats, track, now, storeUp, dbUp, zoneDb, tasks,
                   violation_logs, outages, ep, last_touch>>

\* lines 354-357: DEL of the key, when there is a connection and the store answers
clear_user_tracking(user_id, zone_id) ==
    /\ redis = "set"
    /\ storeUp
    /\ track[<<user_id, zone_id>>] # NoRec
    /\ track' = [track EXCEPT ![<<user_id, zone_id>>] = NoRec]
    /\ ep' = [ep EXCEPT ![<<user_id, zone_id>>] = NewEpisode]
    /\ proc' = BreakReaders({<<user_id, zone_id>>})
    /\ UNCHANGED <<written, cleared, snapshot, stopped, svc>>
    /\ UNCHANGED <<redis, zone_cache, stats, now, storeUp, dbUp, zoneDb, tasks,
                   violation_logs, outages, last_touch, invalidated>>

\* lines 347-357, every call that returns: without a connection nothing is
\* sent; with one, DEL removes the key (a DEL that raises does not return)
ClearTracking(user_id, zone_id) ==
    LET k == <<user_id, zone_id>>
    IN  /\ redis = "set" => storeUp
        /\ track' = IF redis = "set" THEN [track EXCEPT ![k] = NoRec] ELSE track
        /\ ep' = IF track'[k] # track[k] THEN [ep EXCEPT ![k] = NewEpisode] ELSE ep
        /\ proc' = IF track'[k] # track[k] THEN BreakReaders({k}) ELSE proc
        /\ cleared' = [cleared EXCEPT ![k] = TRUE]
        /\ UNCHANGED <<redis, zone_cache, stats, now, storeUp, dbUp, zoneDb, tasks,
                       violation_logs, outages, last_touch, invalidated, written,
                       snapshot, stopped, svc>>

\* lines 73-79: the connection is closed and forgotten
close_redis ==
    /\ redis = "set"
    /\ redis' = "none"
    /\ UNCHANGED <<zone_cache, stats, track, now, storeUp, dbUp, zoneDb, proc, tasks,
                   violation_logs, outages, invalidated, ep, last_touch, written,
                   cleared, snapshot, stopped, svc>>

\* lines 339-345: the counters and the size of the zone cache
get_statistics ==
    [messages_processed |-> stats.messages_processed,
     violations_detected |-> stats.violations_detected,
     warnings_issued |-> stats.warnings_issued,
     errors |-> stats.errors,
     zone_cache_size |-> Cardinality({z \in Zones : zone_cache[z] # NotCached})]

\* a caller (GET /statistics of the violations router) takes the statistics
GetStatistics ==
    /\ snapshot' = get_statistics
    /\ UNCHANGED <<redis, zone_cache, stats, track, now, storeUp, dbUp, zoneDb, proc,
                   tasks, violation_logs, outages, invalidated, ep, last_touch,
                   written, cleared, stopped, svc>>

\* crud/zone_crud.py: an administrator creates the zone's row, or sets its threshold
ConfigureZone(zone_id, threshold) ==
    /\ dbUp
    /\ zoneDb' = [zoneDb EXCEPT ![zone_id] = threshold]
    /\ UNCHANGED <<redis, zone_cache, stats, track, now, storeUp, dbUp, proc, tasks,
                   violation_logs, outages, invalidated, ep, last_touch, written,
                   cleared, snapshot, stopped, svc>>

\* main.py lines 79-85: the application shuts down; the handler closes the
\* caches, the database and the Kafka consumer and awaits nothing else, and
\* the event loop ends with it
shutdown_event ==
    /\ ~stopped
    /\ stopped' = TRUE
    /\ UNCHANGED <<redis, zone_cache, stats, track, now, storeUp, dbUp, zoneDb, proc,
                   tasks, violation_logs, outages, invalidated, ep, last_touch,
                   written, cleared, snapshot, svc>>

\* ------------------------------------------------------------ RedisCache

\* str(k) of a non-negative id below 100: its decimal digits
StrOf(k) == IF k < 10 THEN <<k>> ELSE <<k \div 10, k % 10>>

\* int(s) of a string of decimal digits
IntOf(s) == IF Len(s) = 1 THEN s[1] ELSE 10 * s[1] + s[2]

\* line 129: {str(k): v for k, v in users_dict.items()}
data_to_store(users_dict) ==
    [f \in {StrOf(k) : k \in DOMAIN users_dict} |->
        users_dict[CHOOSE k \in DOMAIN users_dict : StrOf(k) = f]]

\* line 155: {int(k): v for k, v in data.items()}
FromStore(data) ==
    [k \in {IntOf(f) : f \in DOMAIN data} |->
        data[CHOOSE f \in DOMAIN data : IntOf(f) = k]]

\* HSET key mapping: the fields given are set, the others stay
Hset(hash, mapping) ==
    [f \in DOMAIN hash \cup DOMAIN mapping |->
        IF f \in DOMAIN mapping THEN mapping[f] ELSE hash[f]]

\* lines 83-103: the connection is made on first use; a failed PING
\* disables the cache for good
EnsureEnabled == IF rc_redis = "none" /\ rc_enabled THEN storeUp ELSE rc_enabled
EnsureRedis == IF rc_redis = "none" /\ rc_enabled /\ storeUp THEN "set" ELSE rc_redis

\* lines 105-107, after _ensure_connection
is_available == EnsureEnabled /\ EnsureRedis = "set"

\* lines 111-136.  HSET with an empty mapping raises in the client.  The
\* connection may be lost between the HSET and the EXPIRE.  The TTL of the
\* hash (an hour by default) is beyond the times looked at here.
cache_users_dict(users_dict) ==
    /\ rc_enabled' = EnsureEnabled
    /\ rc_redis' = EnsureRedis
    /\ IF is_available /\ storeUp /\ users_dict # EmptyDict
       THEN /\ users_hash' = Hset(users_hash, data_to_store(users_dict))
            /\ \/ /\ rc_last' = [op |-> "cache", ok |-> TRUE, d |-> users_dict]
                  /\ UNCHANGED <<storeUp, outages>>
               \/ /\ outages < MaxOutages
                  /\ storeUp' = FALSE /\ outages' = outages + 1
                  /\ rc_last' = [op |-> "cache", ok |-> FALSE, d |-> users_dict]
       ELSE /\ users_hash' = users_hash
            /\ rc_last' = [op |-> "cache", ok |-> FALSE, d |-> users_dict]
            /\ UNCHANGED <<storeUp, outages>>
    /\ UNCHANGED <<redis, zone_cache, stats, track, now, dbUp, zoneDb, proc,
                   tasks, violation_logs, invalidated, ep, last_touch,
                   written, cleared, snapshot, stopped, got, cons, stream, recon>>

\* lines 138-158
get_users_dict ==
    /\ rc_enabled' = EnsureEnabled
    /\ rc_redis' = EnsureRedis
    /\ got' = IF is_available /\ storeUp /\ users_hash # EmptyDict
              THEN [some |-> TRUE, val |-> FromStore(users_hash), up |-> storeUp,
                    after |-> rc_last]
              ELSE [some |-> FALSE, val |-> EmptyDict, up |-> storeUp, after |-> rc_last]
    /\ UNCHANGED <<mp, users_hash, rc_last, cons, stream, recon>>

\* lines 160-172
invalidate_users_dict ==
    /\ rc_enabled' = EnsureEnabled
    /\ rc_redis' = EnsureRedis
    /\ users_hash' = IF is_available /\ storeUp THEN EmptyDict ELSE users_hash
    /\ rc_last' = [op |-> "invalidate", ok |-> is_available /\ storeUp, d |-> EmptyDict]
    /\ UNCHANGED <<mp, got, cons, stream, recon>>

\* ------------------------------------------------------ consumer services

\* base_consumer_service.py lines 44-52: a service as constructed
NewService ==
    [running |-> FALSE, event_loop |-> FALSE, task |-> "none", message_count |-> 0,
     stop_returned |-> FALSE]

NoFuture == [state |-> "none", src |-> "", m |-> [user_id |-> "", zone_id |-> "", timestamp |-> NoTs],
             p |-> 0, at |-> 0, be_status |-> ""]

\* deque.append with maxlen: the oldest entry goes when the deque is full
DequeAppend(buffer, x) ==
    IF Len(buffer) < maxlen THEN Append(buffer, x) ELSE Append(Tail(buffer), x)

\* start() of the three services (kafka 38-64, sse 41-62, websocket 41-62):
\* only the Kafka service keeps a reference to the event loop (line 54)
start(kind) ==
    /\ consumer' = IF consumer[kind].running THEN consumer
                   ELSE [consumer EXCEPT ![kind] =
                            [@ EXCEPT !.running = TRUE,
                                      !.event_loop = @ \/ kind = "kafka",
                                      !.task = "alive",
                                      !.stop_returned = FALSE]]
    /\ UNCHANGED <<mp, rcache, stream, recon, poll, future, handed, message_buffer>>

\* kafka_consumer_service.py lines 70-78 and kafka_manager.py lines 316-324:
\* the task hands consume() to an executor thread, which polls while
\* KafkaAlertConsumer.running
KafkaConsume ==
    /\ consumer["kafka"].running /\ consumer["kafka"].task = "alive"
    /\ poll = "none"
    /\ poll' = "polling"
    /\ UNCHANGED <<mp, rcache, stream, recon, consumer, future, handed, message_buffer>>

\* the service is receiving: the poll thread of Kafka, the task of the others
Receiving(kind) ==
    IF kind = "kafka" THEN poll = "polling" /\ future.state = "none"
    ELSE consumer[kind].running /\ consumer[kind].task = "alive"

\* base_consumer_service.py lines 134-138 and 189-192: _handle_message is
\* given a message and schedules process() on self._event_loop; with no
\* loop, run_coroutine_threadsafe raises and the handler of line 165 logs it
handle_message(kind, m) ==
    /\ Receiving(kind)
    /\ handed["kafka"] + handed["sse"] + handed["websocket"] < ConsMaxMessages
    /\ handed' = [handed EXCEPT ![kind] = @ + 1]
    /\ future' = IF consumer[kind].event_loop
                 THEN [state |-> "scheduled", src |-> kind, m |-> m, p |-> 0, at |-> now,
                       be_status |-> ""]
                 ELSE future
    /\ UNCHANGED <<mp, rcache, stream, recon, consumer, poll, message_buffer>>

\* the event loop starts the process() call that was scheduled
ConsBegin(p) ==
    /\ future.state = "scheduled"
    /\ BeginCall(p, future.m)
    /\ future' = [future EXCEPT !.state = "running", !.p = p]
    /\ UNCHANGED <<rcache, stream, recon, consumer, poll, handed, message_buffer>>

ConsStep(p) ==
    \/ Ping(p)
    \/ DbQuery(p)
    \/ DbReturn(p)
    \/ Exec(p)
    \/ HsetNew(p)
    \/ ExpireNew(p)
    \/ HsetAlert(p)
    \/ ExpireTouch(p)

\* line 216 of process() and line 193: the call returns; when the handler
\* is still waiting for it, the future gets the message
ConsReturn(p) ==
    /\ proc[p].pc = "done"
    /\ proc' = [proc EXCEPT ![p] = IdleProc]
    /\ future' = IF future.state = "running" /\ future.p = p
                 THEN [future EXCEPT !.state = "result", !.be_status = proc[p].be_status]
                 ELSE future
    /\ UNCHANGED <<redis, zone_cache, stats, track, now, storeUp, dbUp, zoneDb, tasks,
                   violation_logs, outages, ep, last_touch, invalidated,
                   written, cleared, snapshot, stopped,
                   rcache, stream, recon, consumer, poll, handed, message_buffer>>

\* line 193: the result has not come within the timeout; future.result
\* raises, the handler of line 165 logs it, and the call goes on unobserved
ResultTimeout ==
    /\ future.state = "running"
    /\ now - future.at >= result_timeout
    /\ future' = NoFuture
    /\ UNCHANGED <<mp, rcache, stream, recon, consumer, poll, handed, message_buffer>>

\* lines 141-146: the enriched message is appended and counted
append_message ==
    /\ future.state = "result"
    /\ message_buffer' = DequeAppend(message_buffer,
                                      [src |-> future.src, n |-> handed[future.src],
                                       be_status |-> future.be_status])
    /\ consumer' = [consumer EXCEPT ![future.src].message_count = @ + 1]
    /\ future' = NoFuture
    /\ UNCHANGED <<mp, rcache, stream, recon, poll, handed>>

\* stop() of the three services (kafka 92-119, sse 142-166, websocket
\* 148-172): a service that is not running returns at once; else the task
\* is cancelled and awaited.  KafkaAlertConsumer has no close(), so line 113
\* raises AttributeError, which line 116 logs: the executor thread is
\* neither told to stop nor joined.
stop(kind) ==
    /\ consumer' = IF ~consumer[kind].running THEN consumer
                   ELSE [consumer EXCEPT ![kind] =
                            [@ EXCEPT !.running = FALSE, !.task = "cancelled",
                                      !.stop_returned = TRUE]]
    /\ UNCHANGED <<mp, rcache, stream, recon, poll, future, handed, message_buffer>>

\* ------------------------------------------------- the alerts WebSocket

\* no client is connected.  owed is the number of the next message the
\* client is to be sent, dup and gap tell whether it was sent a message
\* twice or was sent a later one first.
NoClient ==
    [connected |-> FALSE, last_sent |-> 0, owed |-> 0, dup |-> FALSE, gap |-> FALSE]

\* the number of messages appended to the buffer so far
Appended == IF message_buffer = <<>> THEN 0 ELSE message_buffer[Len(message_buffer)].n

\* base_consumer_service.py line 145 (main.py line 63): a consumer appends
\* a message it has processed
buffer_append ==
    /\ Appended < StreamMaxAppends
    /\ message_buffer' = DequeAppend(message_buffer,
                                      [src |-> "kafka", n |-> Appended + 1,
                                       be_status |-> "ENTERED"])
    /\ UNCHANGED <<mp, rcache, stream, recon, consumer, poll, future, handed>>

\* kafka.py lines 54-81: the client connects, is sent the history and the
\* welcome, and last_sent starts at the length of the buffer
ws_connect ==
    /\ ~client.connected
    /\ client' = [NoClient EXCEPT !.connected = TRUE,
                                  !.last_sent = Len(message_buffer),
                                  !.owed = Appended + 1]
    /\ UNCHANGED <<mp, rcache, cons, recon>>

\* list(message_buffer)[last_sent:]
NewMessages(buffer, last_sent) == SubSeq(buffer, last_sent + 1, Len(buffer))

\* lines 86-94: a pass of the loop that finds the buffer longer than
\* last_sent sends the new messages as alerts, in order, and sets last_sent
\* to the size it saw (a pass that finds nothing sleeps).  The messages of
\* the buffer are numbered in order, so the ones sent are first.n .. last.n.
ws_pass ==
    /\ client.connected
    /\ Len(message_buffer) > client.last_sent
    /\ LET current_size == Len(message_buffer)
           new_messages == NewMessages(message_buffer, client.last_sent)
           first == new_messages[1]
           last == new_messages[Len(new_messages)]
       IN  client' = [client EXCEPT
                !.owed = IF last.n >= @ THEN last.n + 1 ELSE @,
                !.dup = @ \/ first.n < client.owed,
                !.gap = @ \/ first.n > client.owed,
                !.last_sent = current_size]
    /\ UNCHANGED <<mp, rcache, cons, recon>>

\* lines 99-104: the client goes away
ws_disconnect ==
    /\ client.connected
    /\ client' = NoClient
    /\ UNCHANGED <<mp, rcache, cons, recon>>

\* ------------------------------------------------ SSEConsumerService
\* src/api/services/sse_consumer_service.py, src/config/consumer_config.py.
\* Delays are in seconds.  A step ends where _consume_loop awaits: the
\* connection (line 70), the stream (line 87), the sleep (line 140).

\* retry_delay is validated to 1..300 (consumer_config.py lines 33, 46-50);
\* max_retries is any integer, -1 by default (line 34)
RetryDelays == {1, 5, 300}
MaxRetries == {-1, 0, 2}

Min(a, b) == IF a <= b THEN a ELSE b

NoSse ==
    [at |-> "none", retry_delay |-> 1, max_retries |-> -1, running |-> FALSE,
     retry_count |-> 0, delay |-> 0, fails |-> 0, attempts |-> 0, stop_called |-> FALSE]

\* __init__, lines 27-39
SseInit(retry_delay, max_retries) ==
    /\ sse.at = "none"
    /\ sse' = [NoSse EXCEPT !.at = "new", !.retry_delay = retry_delay,
                            !.max_retries = max_retries]
    /\ UNCHANGED <<mp, rcache, cons, stream>>

\* start(), lines 41-62, config.enabled being true
SseStart ==
    /\ sse.at = "new"
    /\ ~sse.running
    /\ sse' = [sse EXCEPT !.running = TRUE, !.at = "connecting"]
    /\ UNCHANGED <<mp, rcache, cons, stream>>

\* _handle_reconnect with the exponent left uncapped
handle_reconnect_uncapped(s) ==
    LET n == s.retry_count + 1
    IN  IF s.max_retries > 0 /\ n > s.max_retries
        THEN [s EXCEPT !.retry_count = n, !.running = FALSE, !.at = "exited"]
        ELSE [s EXCEPT !.retry_count = n, !.at = "sleeping",
                       !.delay = Min(s.retry_delay * (2 ^ (n - 1)), 60)]

\* _handle_reconnect, lines 120-140, called with _running true: up to the
\* sleep, or to the end of the loop when the retries are used up (the
\* while test at line 67 then fails)
handle_reconnect(s) ==
    LET n == s.retry_count + 1
    IN  IF s.max_retries > 0 /\ n > s.max_retries
        THEN [s EXCEPT !.retry_count = n, !.running = FALSE, !.at = "exited"]
        ELSE [s EXCEPT !.retry_count = n, !.at = "sleeping",
                       !.delay = Min(s.retry_delay * (2 ^ Min(n - 1, 5)), 60)]

\* lines 70-85: the endpoint answers 200
SseConnected ==
    /\ sse.at = "connecting"
    /\ sse.running
    /\ sse.attempts < SseMaxAttempts
    /\ sse' = [sse EXCEPT !.at = "streaming", !.retry_count = 0, !.fails = 0,
                          !.attempts = @ + 1]
    /\ UNCHANGED <<mp, rcache, cons, stream>>

\* lines 78-81 and 106-118: another status, or the connection raises
SseRefused ==
    /\ sse.at = "connecting"
    /\ sse.running
    /\ sse.attempts < SseMaxAttempts
    /\ sse' = handle_reconnect([sse EXCEPT !.fails = @ + 1, !.attempts = @ + 1])
    /\ UNCHANGED <<mp, rcache, cons, stream>>

\* lines 87-89 and 106-118: the stream breaks
SseStreamError ==
    /\ sse.at = "streaming"
    /\ sse.running
    /\ sse' = handle_reconnect([sse EXCEPT !.fails = @ + 1])
    /\ UNCHANGED <<mp, rcache, cons, stream>>

\* line 87: the server ends the stream; the loop connects again at once
SseStreamEnd ==
    /\ sse.at = "streaming"
    /\ sse.running
    /\ sse' = [sse EXCEPT !.at = "connecting"]
    /\ UNCHANGED <<mp, rcache, cons, stream>>

\* line 140 returns: back to the while test of line 67
SseWake ==
    /\ sse.at = "sleeping"
    /\ sse.running
    /\ sse' = [sse EXCEPT !.at = "connecting"]
    /\ UNCHANGED <<mp, rcache, cons, stream>>

\* stop(), lines 142-166: the task is cancelled wherever it waits
SseStop ==
    /\ sse.running
    /\ sse' = [sse EXCEPT !.running = FALSE, !.at = "cancelled", !.stop_called = TRUE]
    /\ UNCHANGED <<mp, rcache, cons, stream>>

SseNext ==
    \/ \E retry_delay \in RetryDelays, max_retries \in MaxRetries :
            SseInit(retry_delay, max_retries)
    \/ SseStart
    \/ SseConnected
    \/ SseRefused
    \/ SseStreamError
    \/ SseStreamEnd
    \/ SseWake
    \/ SseStop

\* ---------------------------------------------------------- environment

\* the clock advances; the store evicts the keys whose expiry has come
Tick ==
    /\ now < MaxTime
    /\ now' = now + TickMs
    /\ LET gone == {k \in Keys : Evicted(track[k], now')}
       IN  /\ track' = [k \in Keys |-> IF k \in gone THEN NoRec ELSE track[k]]
           /\ ep' = [k \in Keys |-> IF k \in gone THEN NewEpisode ELSE ep[k]]
           /\ proc' = BreakReaders(gone)
    /\ UNCHANGED <<written, cleared, snapshot, stopped, svc>>
    /\ UNCHANGED <<redis, zone_cache, stats, storeUp, dbUp, zoneDb, tasks, violation_logs,
                   outages, last_touch, invalidated>>

StoreDown ==
    /\ storeUp /\ outages < MaxOutages
    /\ storeUp' = FALSE /\ outages' = outages + 1
    /\ UNCHANGED <<written, cleared, snapshot, stopped, svc>>
    /\ UNCHANGED <<redis, zone_cache, stats, track, now, dbUp, zoneDb, proc, tasks,
                   violation_logs, ep, last_touch, invalidated>>

StoreBack ==
    /\ ~storeUp
    /\ storeUp' = TRUE
    /\ UNCHANGED <<written, cleared, snapshot, stopped, svc>>
    /\ UNCHANGED <<redis, zone_cache, stats, track, now, dbUp, zoneDb, proc, tasks,
                   violation_logs, outages, ep, last_touch, invalidated>>

DbDown ==
    /\ dbUp /\ outages < MaxOutages
    /\ dbUp' = FALSE /\ outages' = outages + 1
    /\ UNCHANGED <<written, cleared, snapshot, stopped, svc>>
    /\ UNCHANGED <<redis, zone_cache, stats, track, now, storeUp, zoneDb, proc, tasks,
                   violation_logs, ep, last_touch, invalidated>>

DbBack ==
    /\ ~dbUp
    /\ dbUp' = TRUE
    /\ UNCHANGED <<written, cleared, snapshot, stopped, svc>>
    /\ UNCHANGED <<redis, zone_cache, stats, track, now, storeUp, zoneDb, proc, tasks,
                   violation_logs, outages, ep, last_touch, invalidated>>

\* --------------------------------------------------------- specifications

Init ==
    /\ redis = "none"
    /\ zone_cache = [z \in Zones |-> NotCached]
    /\ stats = [messages_processed |-> 0, violations_detected |-> 0,
                warnings_issued |-> 0, errors |-> 0]
    /\ track = [k \in Keys |-> NoRec]
    /\ now = 0
    /\ storeUp = TRUE
    /\ dbUp = TRUE
    /\ zoneDb = [z \in Zones |-> IF z = "Z1" THEN 10 ELSE NoRow]
    /\ proc = [p \in Procs |-> IdleProc]
    /\ tasks = <<>>
    /\ violation_logs = <<>>
    /\ outages = 0
    /\ invalidated = [z \in Zones |-> FALSE]
    /\ ep = [k \in Keys |-> NewEpisode]
    /\ last_touch = [k \in Keys |-> 0]
    /\ written = [z \in Zones |-> NotCached]
    /\ cleared = [k \in Keys |-> FALSE]
    /\ snapshot = get_statistics
    /\ stopped = FALSE
    /\ rc_enabled = TRUE
    /\ rc_redis = "none"
    /\ users_hash = EmptyDict
    /\ rc_last = [op |-> "none", ok |-> FALSE, d |-> EmptyDict]
    /\ got = [some |-> FALSE, val |-> EmptyDict, up |-> FALSE,
              after |-> [op |-> "none", ok |-> FALSE, d |-> EmptyDict]]
    /\ consumer = [kind \in Kinds |-> NewService]
    /\ poll = "none"
    /\ future = NoFuture
    /\ handed = [kind \in Kinds |-> 0]
    /\ message_buffer = <<>>
    /\ client = NoClient
    /\ sse = NoSse

Step(p) ==
    \/ Ping(p)
    \/ DbQuery(p)
    \/ DbReturn(p)
    \/ Exec(p)
    \/ HsetNew(p)
    \/ ExpireNew(p)
    \/ HsetAlert(p)
    \/ ExpireTouch(p)
    \/ Return(p)

CacheAdmin ==
    \/ \E z \in Zones, t \in ThresholdChoices : update_zone_cache(z, t)
    \/ \E z \in Zones \cup {""} : invalidate_zone_cache(z)

TrackAdmin == \E k \in Keys : clear_user_tracking(k[1], k[2])

\* a zone is created, or reset, with the column's default threshold
ZoneAdmin == \E z \in Zones : ConfigureZone(z, violation_threshold)

Background == \E i \in 1..Len(tasks) : SaveViolationLog(i)

\* Interleaved: process() calls on one key overlap at their awaits, and the
\* clock, the manual clear and the background writes go on meanwhile.
Next ==
    \/ \E p \in Procs, m \in SameKeyMessages : Begin(p, m)
    \/ \E p \in Procs : Step(p)
    \/ TrackAdmin
    \/ Tick
    \/ Background

Spec == Init /\ [][Next]_vars

\* One after another: every call of the processor returns before the next
\* starts; the clock, the outages of both servers and the background writes
\* go on meanwhile.
Quiet == \A p \in Procs : proc[p].pc = "idle"

SeqBegin(p, m) == Quiet /\ stats.messages_processed < SeqMaxCalls /\ BeginBody(p, m)

SeqNext ==
    \/ \E p \in Procs, m \in Messages : SeqBegin(p, m)
    \/ \E p \in Procs : Step(p)
    \/ Quiet /\ TrackAdmin
    \/ Tick
    \/ Background
    \/ StoreDown
    \/ StoreBack
    \/ DbDown
    \/ DbBack

SeqSpec == Init /\ [][SeqNext]_vars

\* One subject dwelling in one zone: the calls on one key, one after
\* another, with the clock, the outages of the store, the manual clear and
\* the background writes.
DwellBegin(p, m) == Quiet /\ stats.messages_processed < DwellMaxCalls /\ BeginBody(p, m)

DwellNext ==
    \/ \E p \in Procs, m \in DwellMessages : DwellBegin(p, m)
    \/ \E p \in Procs : Step(p)
    \/ Quiet /\ TrackAdmin
    \/ Tick
    \/ Background
    \/ StoreDown
    \/ StoreBack

DwellSpec == Init /\ [][DwellNext]_vars

\* The zone threshold cache: lookups (made by process() calls), the
\* administrative calls and the changes of the zones' rows, one after
\* another, with outages of the configuration store.
CacheBegin(p, m) == Quiet /\ stats.messages_processed < CacheMaxCalls /\ BeginBody(p, m)

CacheNext ==
    \/ \E p \in Procs, m \in LookupMessages : CacheBegin(p, m)
    \/ \E p \in Procs : Step(p)
    \/ Quiet /\ CacheAdmin
    \/ Quiet /\ ZoneAdmin
    \/ DbDown
    \/ DbBack

CacheSpec == Init /\ [][CacheNext]_vars

\* The zone threshold cache with the administrative calls and the changes
\* of the zones' rows arriving at any await of a lookup; the process()
\* calls themselves come one after another.
RaceBegin(p, m) == Quiet /\ stats.messages_processed < RaceMaxCalls /\ BeginBody(p, m)

RaceNext ==
    \/ \E p \in Procs, m \in LookupMessages : RaceBegin(p, m)
    \/ \E p \in Procs : Step(p)
    \/ CacheAdmin
    \/ ZoneAdmin
    \/ DbDown
    \/ DbBack

RaceSpec == Init /\ [][RaceNext]_vars

\* The life of the service: calls on one key, one after another, with the
\* manual clear, the closing of the connection, the clock, outages of the
\* store and the background writes, until the application shuts down.
LifeBegin(p, m) == Quiet /\ stats.messages_processed < LifeMaxCalls /\ BeginBody(p, m)

Running == ~stopped

LifeNext ==
    \/ Running /\ \E p \in Procs, m \in DwellMessages : LifeBegin(p, m)
    \/ Running /\ \E p \in Procs : Step(p)
    \/ Running /\ Quiet /\ \E k \in Keys : ClearTracking(k[1], k[2])
    \/ Running /\ Quiet /\ close_redis
    \/ Running /\ Tick
    \/ Running /\ Background
    \/ Running /\ StoreDown
    \/ Running /\ StoreBack
    \/ shutdown_event

LifeSpec == Init /\ [][LifeNext]_vars

\* The statistics: process() calls one after another, on one key and on
\* invalid messages, with outages of the store, invalidations of the zone
\* cache and callers that take the statistics at any point of a call.
StatsBegin(p, m) == Quiet /\ stats.messages_processed < StatsMaxCalls /\ BeginBody(p, m)

StatsNext ==
    \/ \E p \in Procs, m \in Messages : StatsBegin(p, m)
    \/ \E p \in Procs : Step(p)
    \/ GetStatistics
    \/ \E z \in Zones \cup {""} : invalidate_zone_cache(z)
    \/ StoreDown
    \/ StoreBack

StatsSpec == Init /\ [][StatsNext]_vars

\* The users dictionary cache: its three calls, one after another, with
\* outages of the store.
UsersNext ==
    \/ \E d \in Dicts : cache_users_dict(d)
    \/ get_users_dict
    \/ invalidate_users_dict
    \/ StoreDown
    \/ StoreBack

UsersSpec == Init /\ [][UsersNext]_vars

\* The consumer services: each is started and stopped, and hands the
\* messages it receives to _handle_message; the process() calls run on the
\* event loop while the clock goes on.
ConsNext ==
    \/ \E kind \in Kinds : start(kind)
    \/ KafkaConsume
    \/ \E kind \in Kinds, m \in SameKeyMessages : handle_message(kind, m)
    \/ \E p \in Procs : ConsBegin(p)
    \/ \E p \in Procs : ConsStep(p)
    \/ \E p \in Procs : ConsReturn(p)
    \/ ResultTimeout
    \/ append_message
    \/ \E kind \in Kinds : stop(kind)
    \/ Tick

ConsSpec == Init /\ [][ConsNext]_vars

\* Streaming: consumers append to the shared buffer while one client of
\* /kafka/ws/alerts connects and is sent the new messages.
StreamNext ==
    \/ buffer_append
    \/ ws_connect
    \/ ws_pass
    \/ ws_disconnect

StreamSpec == Init /\ [][StreamNext]_vars

SseSpec == Init /\ [][SseNext]_vars

\* ------------------------------------------------------------- properties

C2_NoDoubleFire ==
    \A k \in Keys :
        /\ ep[k].sched <= 1
        /\ ep[k].viol <= 1
        /\ Cardinality({p \in Procs : /\ proc[p].pc \in {"hset_alert", "expire", "done"}
                                      /\ KeyOf(proc[p]) = k
                                      /\ ~proc[p].broken
                                      /\ proc[p].be_status = "VIOLATION"}) <= 1

\* C3  First touch (SeqSpec).  A call that finds no hash for its key and
\* whose store commands all succeed returns ENTERED with tracking duration
\* 0, and when it returns the hash holds its event time as start time,
\* alerted = 0 and a TTL of tracking_ttl.
C3_FirstTouch ==
    /\ [](\A p \in Procs :
            (/\ proc[p].pc = "done"
             /\ proc[p].has_read
             /\ proc[p].state_data = NoRec
             /\ ~proc[p].failed)
            => /\ proc[p].be_status = "ENTERED"
               /\ proc[p].tracking_duration = 0)
    /\ [][\A p \in Procs :
            (/\ proc[p].pc = "expire_new"
             /\ proc'[p].pc = "done"
             /\ ~proc'[p].failed)
            => /\ proc'[p].be_status = "ENTERED"
               /\ track'[KeyOf(proc[p])].start_ts = proc[p].current_ts
               /\ track'[KeyOf(proc[p])].alerted = 0
               /\ track'[KeyOf(proc[p])].exp - now' = tracking_ttl * 1000]_vars

\* a first touch with a timestamp of its own has returned and its record is there
C3_Witness ==
    \E p \in Procs :
        /\ proc[p].pc = "done"
        /\ proc[p].be_status = "ENTERED"
        /\ proc[p].current_ts = 7004
        /\ track[KeyOf(proc[p])].start_ts = 7004

\* C4  TTL reset (SeqSpec): once no process() call has touched a key for
\* longer than tracking_ttl (and none is under way on it), its hash is gone,
\* so that the next call on the key is a first touch.
C4_TtlReset ==
    \A k \in Keys :
        (/\ now - last_touch[k] > tracking_ttl * 1000
         /\ \A p \in Procs : proc[p].pc \in {"idle", "done"} \/ KeyOf(proc[p]) # k)
        => track[k] = NoRec

\* C5 as stated (DwellSpec): the transition table of an existing record,
\* with time_remaining exactly threshold - duration.
C5_TransitionTableExact ==
    \A p \in Procs :
        LET w == proc[p]
            d == w.current_ts - w.state_data.start_ts
            t == w.threshold * 1000
        IN  (/\ w.pc = "done"
             /\ w.has_read
             /\ w.state_data # NoRec
             /\ w.state_data.start_ts # Absent
             /\ ~w.failed)
            => /\ d <= t => w.be_status = "WARNING" /\ w.time_remaining = t - d
               /\ (d > t /\ AlertedOf(w.state_data) = 0) => w.be_status = "VIOLATION"
               /\ (d > t /\ AlertedOf(w.state_data) = 1) => w.be_status = "VIOLATION_ONGOING"
               /\ (w.threshold = 10 /\ w.state_data.start_ts = 0 /\ w.current_ts = 5000)
                      => w.be_status = "WARNING" /\ w.time_remaining = 5000

\* C5  Transition table of an existing record (DwellSpec).  With duration =
\* event time - stored start time, a call whose store commands succeed
\* returns WARNING when duration <= threshold (duration = threshold
\* included), VIOLATION when duration > threshold and alerted was 0,
\* VIOLATION_ONGOING when duration > threshold and alerted was 1; the time
\* remaining and the durations it reports are the exact values rounded to a
\* hundredth of a second.  For threshold 10 and start 0 the event times 5,
\* 11, 15 give WARNING (remaining 5), VIOLATION (11), VIOLATION_ONGOING (15).
C5_TransitionTable ==
    \A p \in Procs :
        LET w == proc[p]
            d == w.current_ts - w.state_data.start_ts
            t == w.threshold * 1000
        IN  (/\ w.pc = "done"
             /\ w.has_read
             /\ w.state_data # NoRec
             /\ w.state_data.start_ts # Absent
             /\ ~w.failed)
            => /\ w.tracking_duration % 10 = 0
               /\ w.tracking_duration - d \in -5..5
               /\ d <= t => /\ w.be_status = "WARNING"
                            /\ w.time_remaining % 10 = 0
                            /\ w.time_remaining - (t - d) \in -5..5
               /\ (d > t /\ AlertedOf(w.state_data) = 0)
                      => /\ w.be_status = "VIOLATION"
                         /\ w.violation_duration = w.tracking_duration
                         /\ w.out_threshold = w.threshold
               /\ (d > t /\ AlertedOf(w.state_data) = 1)
                      => /\ w.be_status = "VIOLATION_ONGOING"
                         /\ w.violation_duration = w.tracking_duration
                         /\ w.out_threshold = w.threshold
               /\ (w.threshold = 10 /\ w.state_data.start_ts = 0)
                      => /\ w.current_ts = 5000
                            => w.be_status = "WARNING" /\ w.time_remaining = 5000
                         /\ w.current_ts = 10000
                            => w.be_status = "WARNING" /\ w.time_remaining = 0
                         /\ (w.current_ts = 11000 /\ w.state_data.alerted = 0)
                            => w.be_status = "VIOLATION" /\ w.violation_duration = 11000
                         /\ (w.current_ts = 15000 /\ w.state_data.alerted = 1)
                            => w.be_status = "VIOLATION_ONGOING" /\ w.violation_duration = 15000

\* the fourth call of the scenario has returned: ongoing at 15 s, threshold 10,
\* after ENTERED at 0, a WARNING and the VIOLATION
C5_Witness ==
    \E p \in Procs :
        /\ proc[p].pc = "done"
        /\ proc[p].be_status = "VIOLATION_ONGOING"
        /\ proc[p].state_data.start_ts = 0
        /\ proc[p].threshold = 10
        /\ proc[p].violation_duration = 15000
        /\ stats.warnings_issued = 1
        /\ stats.violations_detected = 1
        /\ stats.messages_processed = 4

\* C6  Only the VIOLATION transition schedules a violation-log write
\* (SeqSpec): a call that has scheduled _save_violation_log returns
\* VIOLATION to its caller; a call returning any other status has scheduled
\* none.
C6_OnlyViolationSchedules ==
    \A p \in Procs :
        proc[p].pc = "done" => (proc[p].scheduled <=> proc[p].be_status = "VIOLATION")

\* C7  Invalid input (SeqSpec): a call whose message lacks user_id or
\* zone_id returns INVALID, adds exactly 1 to the errors counter, looks up
\* no zone threshold and reads or writes no tracking record.
C7_InvalidInput ==
    \A p \in Procs :
        (proc[p].pc = "done" /\ (proc[p].user_id = "" \/ proc[p].zone_id = ""))
        => /\ proc[p].be_status = "INVALID"
           /\ proc[p].err_inc = 1
           /\ ~proc[p].queried
           /\ ~proc[p].has_read

\* C8  Transient store error (SeqSpec).  A call during which the connection
\* test or a store command of the touch fails returns ERROR and adds
\* exactly 1 to the errors counter; the failed command is the last one the
\* call sends (no retry); the step at which it fails changes no tracking
\* record, no cache entry and schedules nothing; and a call that has read
\* the store returns ENTERED exactly when the store held no hash for its
\* key.
C8_TransientStoreError ==
    /\ [](\A p \in Procs :
            /\ (proc[p].pc = "done" /\ proc[p].failed)
               => /\ proc[p].be_status = "ERROR"
                  /\ proc[p].err_inc = 1
                  /\ proc[p].ncmd = proc[p].cmd_at_fail
                  /\ proc[p].ncmd <= 4
            /\ (proc[p].pc = "done" /\ proc[p].has_read /\ ~proc[p].failed)
               => (proc[p].be_status = "ENTERED" <=> proc[p].state_data = NoRec))
    /\ [][\A p \in Procs :
            (proc'[p].failed /\ ~proc[p].failed)
            => /\ track' = track
               /\ zone_cache' = zone_cache
               /\ tasks' = tasks
               /\ redis' = redis
               /\ stats'.errors = stats.errors + 1]_vars

\* the store failed in the middle of a touch, after the call had read the hash
C8_Witness ==
    \E p \in Procs :
        /\ proc[p].pc = "done"
        /\ proc[p].failed
        /\ proc[p].has_read
        /\ proc[p].state_data # NoRec
        /\ proc[p].be_status = "ERROR"

\* C9  No error is fatal (SeqSpec): whatever the message and whichever
\* server is down, a call never ends by raising; it returns with be_status
\* one of the six statuses, and the processor then takes the next message.
C9_NoErrorFatal ==
    /\ \A p \in Procs :
          /\ proc[p].pc # "raised"
          /\ proc[p].pc = "done" => proc[p].be_status \in Statuses
    /\ (Quiet /\ stats.messages_processed < SeqMaxCalls)
          => ENABLED (\E m \in Messages : SeqBegin(1, m))

\* after a call on the key has ended in ERROR during an outage, a later call
\* on it has been processed and classified
C9_Witness ==
    \E p \in Procs :
        /\ proc[p].pc = "done"
        /\ proc[p].be_status \in {"WARNING", "VIOLATION", "VIOLATION_ONGOING"}
        /\ ep[KeyOf(proc[p])].err
        /\ outages >= 1
        /\ stats.errors >= 1

\* C10  Zone cache (CacheSpec).  A lookup that finds its zone in the cache
\* returns the cached value and sends no query to the configuration store;
\* a lookup that does not find it, as the first one after an invalidation of
\* the zone or of the whole cache, queries the store; an entry leaves the
\* cache only by an invalidation; and the invalidation of one zone leaves
\* the entries of all other zones as they were.
C10_ZoneCache ==
    /\ [](/\ \A z \in Zones : invalidated[z] => zone_cache[z] = NotCached
          /\ \A p \in Procs :
               LET w == proc[p]
               IN  /\ (w.pc \in {"exec", "hset_new", "expire_new", "hset_alert", "expire"}
                       \/ (w.pc = "done" /\ w.has_read))
                      => /\ w.cache_at_start # NotCached
                            => ~w.queried /\ w.threshold = w.cache_at_start
                         /\ w.cache_at_start = NotCached => w.queried
                         /\ w.after_inval => w.queried
                         /\ zone_cache[w.zone_id] = w.threshold)
    /\ [][/\ \A z \in Zones :
               (zone_cache[z] # NotCached /\ zone_cache'[z] = NotCached) => invalidated'[z]
          /\ \A z \in Zones :
               (/\ invalidated'[z] /\ ~invalidated[z]
                /\ \A y \in Zones \ {z} : invalidated'[y] = invalidated[y])
               => \A y \in Zones \ {z} : zone_cache'[y] = zone_cache[y]]_vars

\* the first lookup after an invalidation has queried the store again, and
\* the other zone is still cached
C10_Witness ==
    \E p \in Procs :
        /\ proc[p].pc = "done"
        /\ proc[p].has_read
        /\ proc[p].after_inval
        /\ proc[p].queried
        /\ \E y \in Zones \ {proc[p].zone_id} : zone_cache[y] # NotCached

\* a coroutine that has its threshold: past the lookup of line 123
PastLookup(w) ==
    \/ w.pc \in {"exec", "hset_new", "expire_new", "hset_alert", "expire"}
    \/ w.pc = "done" /\ w.has_read

\* C11  Default fallback is cached (CacheSpec).  A query that finds no row
\* for the zone, or that fails, yields the global default; the lookup stores
\* what the query yielded in the cache and returns it; a lookup that finds
\* the zone cached returns the cached value without a query, whatever the
\* configuration store holds by then; and a cached value changes only by an
\* invalidation or an update of the zone.
C11_DefaultCached ==
    /\ [](\A p \in Procs :
            LET w == proc[p]
            IN  (PastLookup(w) /\ w.cache_at_start # NotCached)
                => ~w.queried /\ w.threshold = w.cache_at_start)
    /\ [][\A p \in Procs :
            LET z == proc[p].zone_id
            IN  /\ (/\ proc[p].pc = "db"
                    /\ proc'[p].pc = "db_ret"
                    /\ (~dbUp \/ zoneDb[z] = NoRow))
                   => proc'[p].db_threshold = default_threshold
                /\ (proc[p].pc = "db_ret" /\ proc'[p].pc = "exec")
                   => /\ zone_cache'[z] = proc[p].db_threshold
                      /\ proc'[p].threshold = proc[p].db_threshold]_vars
    /\ [][\A z \in Zones :
            (zone_cache[z] # NotCached /\ zone_cache'[z] # zone_cache[z])
            => \/ invalidated'[z] /\ zone_cache'[z] = NotCached
               \/ written'[z] = zone_cache'[z]]_vars

\* a lookup has returned the cached default without a query although the
\* store is up and holds another threshold for the zone
C11_Witness ==
    \E p \in Procs :
        /\ proc[p].pc = "done"
        /\ proc[p].has_read
        /\ ~proc[p].queried
        /\ proc[p].threshold = default_threshold
        /\ written[proc[p].zone_id] = NotCached
        /\ dbUp
        /\ zoneDb[proc[p].zone_id] \notin {NoRow, default_threshold}

\* C12  update_zone_cache is a write-through (CacheSpec).  The call sets the
\* zone's entry to the threshold and leaves the entries of all other zones;
\* until the next update or invalidation of the zone the entry keeps that
\* value, and every lookup of the zone returns it without a query.
C12_WriteThrough ==
    /\ [](\A z \in Zones : written[z] # NotCached => zone_cache[z] = written[z])
    /\ [](\A p \in Procs :
            LET w == proc[p]
            IN  (PastLookup(w) /\ written[w.zone_id] # NotCached)
                => ~w.queried /\ w.threshold = written[w.zone_id])
    /\ [][\A z \in Zones :
            (written'[z] # NotCached /\ written'[z] # written[z])
            => /\ zone_cache'[z] = written'[z]
               /\ \A y \in Zones \ {z} : zone_cache'[y] = zone_cache[y]]_vars

\* a lookup has returned the written threshold, which differs from the
\* store's, while the other zone is still cached
C12_Witness ==
    \E p \in Procs :
        LET z == proc[p].zone_id
        IN  /\ proc[p].pc = "done"
            /\ proc[p].has_read
            /\ written[z] # NotCached
            /\ proc[p].threshold = written[z]
            /\ zoneDb[z] # written[z]
            /\ \E y \in Zones \ {z} : zone_cache[y] # NotCached

\* C13  Manual clear (LifeSpec).  The first call on a key after
\* clear_user_tracking has returned for it, if its store commands succeed,
\* finds no hash and returns ENTERED with tracking duration 0, whatever the
\* record and the connection were when the clear was called; and the clear
\* leaves the hashes of all other keys as they were.
C13_ManualClear ==
    /\ [](\A p \in Procs :
            (proc[p].pc = "done" /\ proc[p].after_clear /\ ~proc[p].failed)
            => /\ proc[p].be_status = "ENTERED"
               /\ proc[p].tracking_duration = 0
               /\ proc[p].state_data = NoRec)
    /\ [][\A k \in Keys :
            (cleared'[k] /\ ~cleared[k])
            => \A j \in Keys \ {k} : track'[j] = track[j]]_vars

\* C16  Shutdown drains or time-boxes the pending writes (LifeSpec): once
\* the application has shut down, no scheduled violation-log write is left
\* that has neither run nor been reported as abandoned.
C16_ShutdownDrains == stopped => Len(tasks) = 0

\* C14  A failed violation-log write is isolated (SeqSpec).  The step in
\* which a pending write fails removes the task and changes nothing else:
\* no counter (errors included), no record (the alerted flag stays 1), no
\* call under way and no row.  A write is scheduled only by the step that
\* sets the alerted flag, which counts the violation once; a call that
\* scheduled a write and met no store error returns VIOLATION whatever
\* became of the write; and no episode schedules a second write, so that a
\* failed write is never retried.
WriteFails == Len(tasks') < Len(tasks) /\ violation_logs' = violation_logs

C14_PersistenceIsolated ==
    /\ [](\A k \in Keys : ep[k].sched <= 1)
    /\ [](Len(tasks) + Len(violation_logs) <= stats.violations_detected)
    /\ [](\A p \in Procs :
            (proc[p].pc = "done" /\ proc[p].scheduled /\ ~proc[p].failed)
            => proc[p].be_status = "VIOLATION")
    /\ [][WriteFails => /\ Len(tasks') = Len(tasks) - 1
                        /\ UNCHANGED <<stats, track, proc, ep, zone_cache, redis>>]_vars
    /\ [][Len(tasks') > Len(tasks)
            => /\ stats'.violations_detected = stats.violations_detected + 1
               /\ Len(tasks') = Len(tasks) + 1
               /\ \E p \in Procs : /\ proc[p].pc = "hset_alert"
                                    /\ proc'[p].scheduled
                                    /\ track'[KeyOf(proc[p])].alerted = 1]_vars

\* a call returns VIOLATION although its write has already failed: the
\* violation is counted, the flag is set, no row exists and none is pending
C14_Witness ==
    /\ tasks = <<>> /\ violation_logs = <<>>
    /\ stats.violations_detected = 1 /\ stats.errors = 0
    /\ \E p \in Procs : /\ proc[p].pc = "done"
                         /\ proc[p].be_status = "VIOLATION"
                         /\ proc[p].scheduled
                         /\ track[KeyOf(proc[p])] # NoRec
                         /\ track[KeyOf(proc[p])].alerted = 1

\* C15  Persistence is off the critical path (SeqSpec).  For every number
\* of pending writes and every state of the configuration store: a call
\* under way can always take its next step, a finished call can always
\* return, and when no call is under way the next one can start.  No step
\* of a call runs a write: a step that moves a call leaves the rows alone
\* and removes no task.
C15_OffCriticalPath ==
    /\ [](\A p \in Procs :
            /\ proc[p].pc \notin {"idle", "done"} => ENABLED Step(p)
            /\ proc[p].pc = "done" => ENABLED Return(p))
    /\ []((Quiet /\ stats.messages_processed < SeqMaxCalls)
            => ENABLED (\E p \in Procs, m \in Messages : SeqBegin(p, m)))
    /\ [][(\E p \in Procs : proc'[p].pc # proc[p].pc)
            => /\ violation_logs' = violation_logs
               /\ Len(tasks') >= Len(tasks)]_vars

\* a call that began after a write was scheduled has completed while the
\* write is still pending and the configuration store is down
C15_Witness ==
    /\ Len(tasks) = 1 /\ ~dbUp
    /\ \E p \in Procs : /\ proc[p].pc = "done"
                         /\ proc[p].be_status = "VIOLATION_ONGOING"
                         /\ ~proc[p].scheduled

\* C17  Touch of an existing record (SeqSpec).  The step that completes a
\* call with WARNING, VIOLATION or VIOLATION_ONGOING leaves the record the
\* call had read, with the expiry set to tracking_ttl from now and, for
\* VIOLATION only, the alerted flag turned from 0 to 1.
C17_TouchFrame ==
    [][\A p \in Procs :
         LET w == proc'[p]
             sd == proc[p].state_data
         IN  (/\ proc[p].pc = "expire"
              /\ w.pc = "done"
              /\ w.be_status \in {"WARNING", "VIOLATION", "VIOLATION_ONGOING"})
             => /\ w.be_status = "VIOLATION" => sd.alerted = 0
                /\ track'[KeyOf(w)] =
                       [sd EXCEPT !.exp = now + tracking_ttl * 1000,
                                  !.alerted = IF w.be_status = "VIOLATION" THEN 1 ELSE @]]_vars

\* C18  Statistics snapshot (StatsSpec).  messages_processed grows by one
\* in exactly the steps in which a process() call starts, whatever the call
\* returns later (INVALID and ERROR included), and changes in no other
\* step.  A step that takes the statistics changes nothing but the
\* caller's copy, and the copy holds the four counters and, as
\* zone_cache_size, the number of zones the cache holds.
Started == {p \in Procs : proc[p].pc = "idle" /\ proc'[p].pc # "idle"}

C18_Statistics ==
    /\ [][stats'.messages_processed = stats.messages_processed + Cardinality(Started)]_vars
    /\ [][snapshot' # snapshot
            => /\ UNCHANGED <<stats, zone_cache, redis, track, proc, tasks, violation_logs>>
               /\ snapshot'.messages_processed = stats.messages_processed
               /\ snapshot'.violations_detected = stats.violations_detected
               /\ snapshot'.warnings_issued = stats.warnings_issued
               /\ snapshot'.errors = stats.errors
               /\ snapshot'.zone_cache_size = Cardinality({z \in Zones : zone_cache[z] # NotCached})
               /\ DOMAIN snapshot' = {"messages_processed", "violations_detected",
                                      "warnings_issued", "errors", "zone_cache_size"}]_vars

\* the statistics taken after two calls, one rejected as INVALID and one
\* ended by a store error, with one zone in the cache
C18_Witness ==
    /\ snapshot = [messages_processed |-> 2, violations_detected |-> 0,
                   warnings_issued |-> 0, errors |-> 2, zone_cache_size |-> 1]
    /\ \E p \in Procs : proc[p].pc = "done" /\ proc[p].be_status = "INVALID"

\* C19  Every live record bears a TTL (SeqSpec).  Whenever no call is
\* between two commands on a key, the key's record, if there is one, has an
\* expiry, and the expiry is at most tracking_ttl ahead of the clock.
C19_TtlBearing ==
    \A k \in Keys :
        (/\ track[k] # NoRec
         /\ \A p \in Procs : proc[p].pc \in {"idle", "done"} \/ KeyOf(proc[p]) # k)
        => /\ track[k].exp # NoTTL
           /\ track[k].exp - now <= tracking_ttl * 1000

\* C20  VIOLATION_ONGOING is the steady state (DwellSpec).  Once a call of
\* the episode of a key has returned VIOLATION, every later call of that
\* episode that completes without a store error returns VIOLATION_ONGOING.
C20_OngoingSteady ==
    [][\A p \in Procs :
         LET w == proc'[p]
         IN  (/\ proc[p].pc \notin {"idle", "done"}
              /\ w.pc = "done"
              /\ ~w.broken
              /\ w.be_status # "ERROR"
              /\ ep[KeyOf(w)].viol >= 1)
             => w.be_status = "VIOLATION_ONGOING"]_vars

\* C21  Round trip of the users dictionary (UsersSpec).  With the store
\* answering, get_users_dict() returns the dictionary the last call wrote
\* when that call was a successful cache_users_dict(d), and None when it
\* was a successful invalidate_users_dict().
C21_RoundTrip ==
    /\ (got.up /\ got.after.op = "cache" /\ got.after.ok)
         => got.some /\ got.val = got.after.d
    /\ (got.up /\ got.after.op = "invalidate" /\ got.after.ok) => ~got.some

\* C22  The alerted flag and the start time of a live record (Spec).  In
\* every step that leaves the record of a key in the store, an alerted flag
\* of 1 stays 1 and the start time stays what it was, however the calls on
\* the key overlap.
C22_AlertedSticky ==
    [][\A k \in Keys :
         (track[k] # NoRec /\ track'[k] # NoRec)
         => /\ track[k].alerted = 1 => track'[k].alerted = 1
            /\ track'[k].start_ts = track[k].start_ts]_vars

\* C23  The touch is one atomic unit per key (Spec).  Of the calls under
\* way on a key whose read found no record, with no removal of the key
\* since, at most one is on the way to create the record and return
\* ENTERED: a sequential execution has one first touch per absence.
C23_OneFirstTouch ==
    \A k \in Keys :
        Cardinality({p \in Procs : /\ proc[p].pc \in {"hset_new", "expire_new"}
                                   /\ KeyOf(proc[p]) = k
                                   /\ ~proc[p].broken}) <= 1

\* C24  Every message of every started consumer is processed (ConsSpec).
\* Whenever no handler is under way, each service has counted every message
\* it was handed, and process() has been started once for each of them.
C24_EveryMessage ==
    future.state = "none"
    => /\ \A kind \in Kinds : consumer[kind].message_count = handed[kind]
       /\ stats.messages_processed = handed["kafka"] + handed["sse"] + handed["websocket"]

\* C25  KafkaConsumerService stops gracefully (ConsSpec).  Once stop() has
\* returned on the running service, and until it is started again, no
\* message is handed to the handler by the service.
C25_KafkaStops ==
    [][consumer["kafka"].stop_returned => handed'["kafka"] = handed["kafka"]]_vars

\* C26  Streaming to a connected client (StreamSpec).  Whenever the loop of
\* a connected client finds nothing new, that is, the buffer is not longer
\* than last_sent, the client has been sent every message appended since it
\* connected, each once and in order.
C26_Streaming ==
    (client.connected /\ Len(message_buffer) <= client.last_sent)
    => /\ client.owed = Appended + 1
       /\ ~client.dup
       /\ ~client.gap

\* C27  SSE reconnect policy (SseSpec).  While the loop sleeps after the
\* n-th failed attempt in a row, the delay is min(retry_delay * 2^min(n-1, 5), 60)
\* seconds; the counter is 0 while a connection is up; with max_retries > 0
\* the loop has stopped itself exactly when n exceeds max_retries; with
\* max_retries = -1 the loop never stops itself.
C27_Reconnect ==
    LET n == sse.fails
    IN  /\ sse.at = "sleeping" =>
              sse.delay = Min(sse.retry_delay * (2 ^ Min(n - 1, 5)), 60)
        /\ sse.at = "streaming" => sse.retry_count = 0
        /\ sse.max_retries > 0 =>
              /\ n > sse.max_retries => (~sse.running /\ sse.at = "exited")
              /\ sse.at = "exited" => n > sse.max_retries
        /\ sse.max_retries = -1 =>
              /\ sse.at # "exited"
              /\ ~sse.running => (sse.stop_called \/ sse.at \in {"none", "new"})

\* the seventh failure in a row with retry_delay 1: the exponent is capped
\* at 5 and the loop sleeps 32 seconds
C27_Witness ==
    /\ sse.at = "sleeping"
    /\ sse.retry_delay = 1
    /\ sse.fails = 7
    /\ sse.delay = 32

\* C28  Outcome counters agree with returned statuses (SeqSpec).  A call
\* that has counted a warning or a violation and has only the touch of the
\* record left returns that status and counts no error, so that it has
\* incremented one counter, the one of the status it returns.
C28_OneCounterPerCall ==
    [][\A p \in Procs :
          (/\ proc[p].pc = "expire"
           /\ proc[p].be_status \in {"WARNING", "VIOLATION"}
           /\ proc'[p].pc = "done")
          => /\ proc'[p].be_status = proc[p].be_status
             /\ stats'.errors = stats.errors]_vars

\* C29  Tracking records are always complete (Spec).  Every live record
\* holds a start time and an alerted flag, whatever expired or was cleared
\* between a call's read and its later writes.
C29_RecordsComplete ==
    \A k \in Keys :
        track[k] # NoRec => (track[k].start_ts # Absent /\ track[k].alerted # Absent)

\* C30  Zone cache administration wins over in-flight lookups (RaceSpec).
\* A lookup that resumes with a value it read from the configuration store
\* before an update or an invalidation of its zone completed does not write
\* that value into the cache: it leaves the zone's entry as the
\* administrative call left it.
C30_AdminWins ==
    [][\A p \in Procs :
          (proc[p].pc = "db_ret" /\ proc'[p].pc = "exec" /\ proc[p].stale)
          => zone_cache'[proc[p].zone_id] = zone_cache[proc[p].zone_id]]_vars

====
